---- MODULE Spec2Model ----
(***************************************************************************)
(* Model of the voice chatbot front end of src/App.jsx: the App component  *)
(* state (useState hooks), the speech-recognition instances it creates,    *)
(* the fetch requests of handleUserInput that are in flight, and the       *)
(* platform speech-synthesis queue.  One action per event handler; a       *)
(* handler runs to completion (JavaScript's single thread), an await on    *)
(* the network ends the step.                                              *)
(***************************************************************************)
EXTENDS Naturals, Sequences, FiniteSets

\* ---------------------------------------------------------------- bounds
\* platform operations in flight at once that the model follows: live
\* SpeechRecognition instances plus fetches not yet settled
MaxPending == 2

\* ------------------------------------------------------------ input sets
\* Strings are sequences of characters, so that trim() is computed.
SP == " "
Inputs == { <<>>, <<SP>>, <<SP, "a">> }
\* reply texts of the service ({response: r})
Replies == { "hi there" }
\* data.response of a JSON body without a `response` field
Undefined == "undefined"
\* voices[selectedVoice] when the index is outside the array
NoVoice == "undefined"
\* the catalogue synth.getVoices() yields once the platform has loaded it
Catalog == << "alice", "bob" >>

\* ------------------------------------------------------------- messages
ErrRecognition == "Sorry, there was an error with speech recognition."
ErrEmptyInput == "Please speak a valid input."
ErrService == "Sorry, there was an issue processing the request."

Free == [st |-> "free"]

VARIABLES
    isLoading,      \* useState(false)
    response,       \* useState("")
    error,          \* useState("")
    userInput,      \* useState("")
    selectedVoice,  \* useState(0)
    isRecording,    \* useState(false)
    voices,         \* useState([]), set from synth.getVoices() by the mount effect
    isModalOpen,    \* useState(false)
    supported,      \* window.SpeechRecognition || window.webkitSpeechRecognition
    alertOpen,      \* the blocking alert() dialog is on screen
    recognitions,   \* SpeechRecognition instances started and not yet ended
    requests,       \* handleUserInput calls suspended on fetch / res.json()
    synthQueue      \* utterances window.speechSynthesis holds (speaking first)

vars == << isLoading, response, error, userInput, selectedVoice, isRecording,
           voices, isModalOpen, supported, alertOpen,
           recognitions, requests, synthQueue >>

ui == << userInput, selectedVoice, voices, supported, alertOpen >>

ReqSlots == 1..MaxPending
RecIds == 1..MaxPending

\* ------------------------------------------------------- pure functions
RECURSIVE TrimStart(_)
TrimStart(s) ==
    IF s # <<>> /\ Head(s) = SP THEN TrimStart(Tail(s)) ELSE s

RECURSIVE TrimEnd(_)
TrimEnd(s) ==
    IF s # <<>> /\ s[Len(s)] = SP THEN TrimEnd(SubSeq(s, 1, Len(s) - 1)) ELSE s

\* String.prototype.trim
Trim(s) == TrimEnd(TrimStart(s))

\* faulty variant: the emptiness test without trim()
IsBlankNoTrim(s) == s = <<>>

\* !input.trim()  (the empty string is falsy)
IsBlank(s) == Trim(s) = <<>>

\* voices[selectedVoice] as the closure of one render sees it
VoiceOf(vs, idx) == IF idx + 1 <= Len(vs) THEN vs[idx + 1] ELSE NoVoice

RemoveAt(seq, i) == SubSeq(seq, 1, i - 1) \o SubSeq(seq, i + 1, Len(seq))

FreeSlot == CHOOSE s \in ReqSlots :
                /\ requests[s] = Free
                /\ \A t \in ReqSlots : requests[t] = Free => s <= t

Outstanding == { s \in ReqSlots : requests[s] # Free }

\* operations in flight
Pending == Len(recognitions) + Cardinality(Outstanding)

\* ------------------------------------------------------------------ init
\* The state after the first render and its effect: fetchVoices has stored
\* the platform's catalogue in voices.
Init ==
    /\ isLoading = FALSE
    /\ response = ""
    /\ error = ""
    /\ userInput = <<>>
    /\ selectedVoice = 0
    /\ isRecording = FALSE
    /\ voices = Catalog
    /\ isModalOpen = FALSE
    /\ supported \in BOOLEAN
    /\ alertOpen = FALSE
    /\ recognitions = <<>>
    /\ requests = [s \in ReqSlots |-> Free]
    /\ synthQueue = <<>>

\* ------------------------------------------------------- handler pieces
\* faulty variant: resetRecording without setIsLoading(false)
ResetRecordingKeepsLoading ==
    /\ isLoading' = isLoading
    /\ isRecording' = FALSE
    /\ isModalOpen' = FALSE

\* faulty variant: resetRecording without setIsModalOpen(false)
ResetRecordingKeepsModal ==
    /\ isLoading' = FALSE
    /\ isRecording' = FALSE
    /\ isModalOpen' = isModalOpen

\* resetRecording
ResetRecording ==
    /\ isLoading' = FALSE
    /\ isRecording' = FALSE
    /\ isModalOpen' = FALSE

\* faulty variant: handleUserInput without setIsLoading(true)
HandleUserInputNoLoading(input, viaMic, voice) ==
    IF IsBlank(input)
    THEN /\ error' = ErrEmptyInput
         /\ UNCHANGED << isLoading, requests >>
    ELSE /\ Pending < MaxPending
         /\ isLoading' = isLoading
         /\ error' = ""
         /\ requests' = [requests EXCEPT ![FreeSlot] =
                [st |-> "fetch", input |-> input, viaMic |-> viaMic, voice |-> voice]]

\* handleUserInput up to its first await.  viaMic: called from onresult,
\* voice: voices[selectedVoice] of the render whose closure is running.
\* Leaves isModalOpen, isRecording, userInput to the caller.
HandleUserInput(input, viaMic, voice) ==
    IF IsBlank(input)
    THEN /\ error' = ErrEmptyInput
         /\ UNCHANGED << isLoading, requests >>
    ELSE /\ Pending < MaxPending
         /\ isLoading' = TRUE
         /\ error' = ""
         /\ requests' = [requests EXCEPT ![FreeSlot] =
                [st |-> "fetch", input |-> input, viaMic |-> viaMic, voice |-> voice]]

\* the continuation of onresult after `await handleUserInput(...)`
AfterAwait(viaMic) == IF viaMic THEN FALSE ELSE isModalOpen

\* faulty variant: speakResponse without synth.cancel()
SpeakResponseNoCancel(text, voice) ==
    synthQueue' = Append(synthQueue, [text |-> text, voice |-> voice])

\* speakResponse
SpeakResponse(text, voice) ==
    synthQueue' = << [text |-> text, voice |-> voice] >>

\* faulty variant: the catch block without the finally block
CatchErrorNoFinally(s) ==
    /\ error' = ErrService
    /\ isLoading' = isLoading
    /\ isModalOpen' = AfterAwait(requests[s].viaMic)
    /\ requests' = [requests EXCEPT ![s] = Free]
    /\ UNCHANGED << response, synthQueue, isRecording, recognitions, ui >>

\* faulty variant: the catch block also resets the response
CatchErrorClearsResponse(s) ==
    /\ error' = ErrService
    /\ isLoading' = FALSE
    /\ isModalOpen' = AfterAwait(requests[s].viaMic)
    /\ requests' = [requests EXCEPT ![s] = Free]
    /\ response' = ""
    /\ UNCHANGED << synthQueue, isRecording, recognitions, ui >>

\* catch + finally of handleUserInput, and the caller's continuation
CatchError(s) ==
    /\ error' = ErrService
    /\ isLoading' = FALSE
    /\ isModalOpen' = AfterAwait(requests[s].viaMic)
    /\ requests' = [requests EXCEPT ![s] = Free]
    /\ UNCHANGED << response, synthQueue, isRecording, recognitions, ui >>

\* --------------------------------------------------------------- actions
\* mic-container onClick.  The handler has no guard in the code: a click is
\* taken whatever the flags are.
StartSpeechRecognition ==
    /\ ~alertOpen
    /\ IF ~supported
       THEN /\ alertOpen' = TRUE
            /\ UNCHANGED << isLoading, response, error, userInput, selectedVoice,
                            isRecording, voices, isModalOpen, supported,
                            recognitions, requests, synthQueue >>
       ELSE /\ Pending < MaxPending
            /\ recognitions' = Append(recognitions,
                   [st |-> "starting", voice |-> VoiceOf(voices, selectedVoice),
                    cancelled |-> FALSE])
            /\ UNCHANGED << isLoading, response, error, isRecording, isModalOpen,
                            requests, synthQueue, ui >>

\* the user dismisses the alert() dialog
DismissAlert ==
    /\ alertOpen
    /\ alertOpen' = FALSE
    /\ UNCHANGED << isLoading, response, error, userInput, selectedVoice,
                    isRecording, voices, isModalOpen, supported,
                    recognitions, requests, synthQueue >>

\* recognition.onstart
OnStart(i) ==
    /\ i \in DOMAIN recognitions
    /\ recognitions[i].st = "starting"
    /\ recognitions' = [recognitions EXCEPT ![i].st = "started"]
    /\ isLoading' = TRUE
    /\ isRecording' = TRUE
    /\ isModalOpen' = TRUE
    /\ UNCHANGED << response, error, requests, synthQueue, ui >>

\* recognition.onresult
OnResult(i, transcript) ==
    /\ i \in DOMAIN recognitions
    /\ recognitions[i].st = "started"
    /\ recognitions' = [recognitions EXCEPT ![i].st = "reported"]
    /\ userInput' = transcript
    /\ HandleUserInput(transcript, TRUE, recognitions[i].voice)
    /\ isModalOpen' = IF IsBlank(transcript) THEN AfterAwait(TRUE) ELSE isModalOpen
    /\ UNCHANGED << response, isRecording, synthQueue, selectedVoice, voices, supported, alertOpen >>

\* recognition.onerror
OnError(i) ==
    /\ i \in DOMAIN recognitions
    /\ recognitions[i].st \in {"starting", "started"}
    /\ recognitions' = [recognitions EXCEPT ![i].st = "reported"]
    /\ error' = ErrRecognition
    /\ ResetRecording
    /\ UNCHANGED << response, requests, synthQueue, ui >>

\* recognition.onend
OnEnd(i) ==
    /\ i \in DOMAIN recognitions
    /\ recognitions[i].st \in {"started", "reported"}
    /\ recognitions' = RemoveAt(recognitions, i)
    /\ ResetRecording
    /\ UNCHANGED << response, error, requests, synthQueue, ui >>

\* VoiceInputModal onClose (the Cancel button)
CloseModal ==
    /\ isModalOpen
    /\ isModalOpen' = FALSE
    /\ UNCHANGED << isLoading, response, error, isRecording, recognitions,
                    requests, synthQueue, ui >>

\* The same handler, observed: the instances that are listening when Cancel
\* is clicked are remembered as cancelled.  The code keeps no such record
\* (the field is written here only and read by no handler).
CloseModalObserved ==
    /\ isModalOpen
    /\ isModalOpen' = FALSE
    /\ recognitions' = [i \in DOMAIN recognitions |->
            IF recognitions[i].st = "started"
            THEN [recognitions[i] EXCEPT !.cancelled = TRUE]
            ELSE recognitions[i]]
    /\ UNCHANGED << isLoading, response, error, isRecording, requests, synthQueue, ui >>

\* input-box onChange
ChangeInput(text) ==
    /\ ~alertOpen
    /\ text # userInput
    /\ userInput' = text
    /\ UNCHANGED << isLoading, response, error, selectedVoice, isRecording, voices, isModalOpen, supported, alertOpen, recognitions,
                    requests, synthQueue >>

\* input-box Enter / send-button onClick
SubmitText ==
    /\ ~alertOpen
    /\ HandleUserInput(userInput, FALSE, VoiceOf(voices, selectedVoice))
    /\ UNCHANGED << response, isRecording, isModalOpen, recognitions, synthQueue, ui >>

\* The handler awaits fetch and then res.json() and changes no state between
\* the two, so the pair is one step: the step in which the call's outcome
\* reaches the handler.

\* fetch rejects (network failure) or resolves with !res.ok
FetchFail(s) ==
    /\ ~alertOpen
    /\ requests[s].st = "fetch"
    /\ CatchError(s)

\* fetch resolves with res.ok and res.json() rejects: the body is not JSON
JsonFail(s) ==
    /\ ~alertOpen
    /\ requests[s].st = "fetch"
    /\ CatchError(s)

\* fetch resolves with res.ok and res.json() with data; reply is data.response
JsonOk(s, reply) ==
    /\ ~alertOpen
    /\ requests[s].st = "fetch"
    /\ response' = reply
    /\ SpeakResponse(reply, requests[s].voice)
    /\ isLoading' = FALSE
    /\ isModalOpen' = AfterAwait(requests[s].viaMic)
    /\ requests' = [requests EXCEPT ![s] = Free]
    /\ UNCHANGED << error, isRecording, recognitions, ui >>

\* the utterance being spoken ends
UtteranceEnd ==
    /\ synthQueue # <<>>
    /\ synthQueue' = Tail(synthQueue)
    /\ UNCHANGED << isLoading, response, error, isRecording, isModalOpen,
                    recognitions, requests, ui >>

\* faulty variant: picking a voice also silences the speech (synth.cancel())
SelectVoiceCancelsSpeech(index) ==
    /\ ~alertOpen
    /\ index + 1 <= Len(voices)
    /\ selectedVoice' = index
    /\ synthQueue' = <<>>
    /\ UNCHANGED << isLoading, response, error, userInput, isRecording, voices,
                    isModalOpen, supported, alertOpen, recognitions, requests >>

\* voice-item onClick.  The list is rendered while showVoices is set; the
\* show-voices-button toggles it at any time and touches nothing else, so the
\* flag is left out and a voice can be picked whenever the catalogue has it.
SelectVoice(index) ==
    /\ ~alertOpen
    /\ index + 1 <= Len(voices)
    /\ selectedVoice' = index
    /\ UNCHANGED << isLoading, response, error, userInput, isRecording, voices, isModalOpen, supported, alertOpen, recognitions,
                    requests, synthQueue >>

\* every handler but the modal's onClose
Handlers ==
    \/ StartSpeechRecognition
    \/ DismissAlert
    \/ \E i \in RecIds : OnStart(i)
    \/ \E i \in RecIds : \E t \in Inputs : OnResult(i, t)
    \/ \E i \in RecIds : OnError(i)
    \/ \E i \in RecIds : OnEnd(i)
    \/ \E t \in Inputs : ChangeInput(t)
    \/ SubmitText
    \/ \E s \in ReqSlots : FetchFail(s)
    \/ \E s \in ReqSlots : JsonFail(s)
    \/ \E s \in ReqSlots : \E r \in Replies \cup {Undefined} : JsonOk(s, r)
    \/ UtteranceEnd
    \/ \E v \in 0..(Len(Catalog) - 1) : SelectVoice(v)

Next == Handlers \/ CloseModal

Spec == Init /\ [][Next]_vars

\* The service settles every call (fetch and res.json() resolve or reject) and the event loop runs the settled promise's
\* continuation once it is free; a blocking alert() is dismissed.
FairSpec ==
    /\ Spec
    /\ \A s \in ReqSlots :
          SF_vars(FetchFail(s) \/ JsonFail(s)
                    \/ \E r \in Replies \cup {Undefined} : JsonOk(s, r))
    /\ WF_vars(DismissAlert)

\* the program with the cancelled cycles remembered
NextObserved == Handlers \/ CloseModalObserved

SpecObserved == Init /\ [][NextObserved]_vars

\* ------------------------------------------------- the spec's vocabulary
\* The code keeps no `status`; the spec's states are read off the flags the
\* render shows: the mic is 'listening', "Loading..." is shown, the synthesis
\* queue holds an utterance, the error toast is shown.
Status ==
    IF isRecording THEN "Listening"
    ELSE IF isLoading THEN "Submitting"
    ELSE IF synthQueue # <<>> THEN "Speaking"
    ELSE IF error # "" THEN "Error"
    ELSE "Idle"

\* a capture cycle: start() was called and onend has not fired
CycleActive == recognitions # <<>>

\* ------------------------------------------------------------------ C1
\* C1: a cancel (the modal's Cancel button) issued while the session is
\* Listening leaves the session, right after that step, not recording, not
\* loading and with the modal closed.
C1_CancelReachesIdle ==
    [][ (isRecording /\ CloseModal)
            => (~isRecording' /\ ~isLoading' /\ ~isModalOpen') ]_vars

\* ------------------------------------------------------------------ C2
\* C2: an event of a capture cycle that arrives after the cancel issued
\* during that cycle is discarded: a late result changes neither userInput
\* nor the requests in flight, a late error does not set the error message.
C2_LateEventsDiscarded ==
    [][ \A i \in RecIds :
            (i \in DOMAIN recognitions /\ recognitions[i].cancelled)
            => /\ (\E t \in Inputs : OnResult(i, t))
                    => (userInput' = userInput /\ requests' = requests)
               /\ OnError(i) => error' = error ]_vars

\* ------------------------------------------------------------------ C3
\* C3: startCapture while a capture cycle is already active is a no-op: no
\* second recognition instance is created and start() is not called again.
C3_StartCaptureIdempotent ==
    [][ (CycleActive /\ StartSpeechRecognition)
            => recognitions' = recognitions ]_vars

\* ------------------------------------------------------------------ C4
\* C4: in every reachable state at most one recognition cycle is active and
\* at most one service request is outstanding.
C4_MutualExclusion ==
    /\ Len(recognitions) <= 1
    /\ Cardinality(Outstanding) <= 1

\* ------------------------------------------------------------------ C5
\* C5: a submission of an input that is non-empty after trimming does not
\* stay in flight for ever when the service settles: its request is
\* eventually completed; the completing step stores the reply and hands it
\* to the synthesis on success, sets the service error message on failure,
\* and clears isLoading in both cases.
C5_SubmitLeavesSubmitting ==
    /\ \A s \in ReqSlots : (requests[s] # Free) ~> (requests[s] = Free)
    /\ [][ \A s \in ReqSlots :
              /\ (FetchFail(s) \/ JsonFail(s))
                    => (error' = ErrService /\ ~isLoading')
              /\ \A r \in Replies \cup {Undefined} :
                    JsonOk(s, r)
                    => /\ response' = r
                       /\ synthQueue' # <<>>
                       /\ synthQueue'[Len(synthQueue')].text = r
                       /\ ~isLoading' ]_vars

C5_Witness ==
    /\ response \in Replies
    /\ synthQueue # <<>>
    /\ synthQueue[1].text = response
    /\ ~isLoading
    /\ Outstanding = {}

\* ------------------------------------------------------------------ C6
\* every character is a space (written without trim)
AllSpaces(s) == \A k \in 1..Len(s) : s[k] = SP

\* C6: a submission of an empty or whitespace-only input, typed or delivered
\* as a recognition transcript, sets the empty-input error message, issues
\* no request and leaves the response as it was.
C6_BlankInputRejected ==
    [][ ( \/ (AllSpaces(userInput) /\ SubmitText)
          \/ \E i \in DOMAIN recognitions :
                AllSpaces(userInput') /\ OnResult(i, userInput') )
        => /\ error' = ErrEmptyInput
           /\ requests' = requests
           /\ response' = response ]_vars

C6_Witness ==
    /\ error = ErrEmptyInput
    /\ userInput = <<SP>>
    /\ Outstanding = {}
    /\ response \in Replies

\* ------------------------------------------------------------------ C7
\* C7: when fetch rejects or resolves with a non-2xx status, the step sets
\* the service error message, hands nothing to the synthesis and leaves
\* response exactly as it was.
C7_ServiceFailureKeepsResponse ==
    [][ \A s \in ReqSlots :
            FetchFail(s)
            => /\ error' = ErrService
               /\ synthQueue' = synthQueue
               /\ response' = response ]_vars

C7_Witness ==
    /\ error = ErrService
    /\ response \in Replies
    /\ Outstanding = {}
    /\ synthQueue = <<>>

\* ------------------------------------------------------------------ C8
\* the request in slot s is the only operation in flight
Alone(s) == recognitions = <<>> /\ Outstanding = {s}

\* C8: from Idle, a non-empty typed submission that the service answers
\* goes Idle, Submitting, Speaking, Idle and nothing else: the submission
\* step ends in Submitting, the step that receives the reply ends in Speaking with response equal to the reply, and
\* the end of the utterance ends in Idle with the response kept.
C8_HappyPathSequence ==
    [][ /\ (Status = "Idle" /\ Pending = 0 /\ ~AllSpaces(userInput) /\ SubmitText)
            => Status' = "Submitting"
        /\ \A s \in ReqSlots :
            (Status = "Submitting" /\ Alone(s) /\ synthQueue = <<>> /\ error = "")
            => \A r \in Replies :
                    JsonOk(s, r) => (Status' = "Speaking" /\ response' = r)
        /\ (Status = "Speaking" /\ Pending = 0 /\ error = "" /\ Len(synthQueue) = 1
                /\ UtteranceEnd)
            => (Status' = "Idle" /\ response' = response) ]_vars

C8_Witness ==
    /\ Status = "Speaking"
    /\ Pending = 0
    /\ error = ""
    /\ response \in Replies
    /\ Len(synthQueue) = 1
    /\ synthQueue[1].text = response

\* ------------------------------------------------------------------ C9
\* C9: a typed submission made while the session is Listening, Submitting
\* or Speaking starts no request and changes no session state.
C9_TypedSubmitOnlyWhenIdle ==
    [][ (Status \in {"Listening", "Submitting", "Speaking"} /\ SubmitText)
            => (requests' = requests /\ isLoading' = isLoading /\ error' = error) ]_vars

\* ----------------------------------------------------------------- C10
\* C10: a voice can be picked whatever the session is doing, and a step that
\* changes selectedVoice changes nothing else: flags, input, response,
\* error, recognition instances, requests and utterances stay as they were.
C10_SelectVoiceFrame ==
    /\ [](~alertOpen => \A v \in 0..(Len(voices) - 1) : ENABLED SelectVoice(v))
    /\ [][ selectedVoice' # selectedVoice
            => UNCHANGED << isLoading, response, error, userInput, isRecording,
                            voices, isModalOpen, supported, alertOpen,
                            recognitions, requests, synthQueue >> ]_vars

C10_Witness ==
    /\ selectedVoice = 1
    /\ isRecording
    /\ Outstanding # {}
    /\ synthQueue # <<>>
    /\ \E i \in DOMAIN recognitions : recognitions[i].voice = Catalog[1]

\* ----------------------------------------------------------------- C11
\* C11: when the platform has no speech recognition, a mic click records an
\* error in the session state (the error message is set) and creates no
\* recognition instance.
C11_CaptureUnavailableIsError ==
    [][ (~supported /\ StartSpeechRecognition)
            => (error' # "" /\ recognitions' = recognitions) ]_vars

\* ----------------------------------------------------------------- C12
\* nothing is in flight and no dialog is open: only a user action can
\* change the state from here
Quiescent == Pending = 0 /\ synthQueue = <<>> /\ ~alertOpen

\* C12: an error is transient: the session goes back to Idle with the error
\* no longer set without a user action, so when nothing but a user action
\* can happen any more, no error message is set.
C12_ErrorIsTransient == Quiescent => error = ""

\* ----------------------------------------------------------------- C13
\* C13: a result of a superseded capture cycle (a newer instance was started
\* after it) is discarded: it neither changes userInput nor starts a request.
C13_SupersededResultDiscarded ==
    [][ \A i \in DOMAIN recognitions :
            (i < Len(recognitions) /\ OnResult(i, userInput'))
            => (userInput' = userInput /\ requests' = requests) ]_vars

\* ----------------------------------------------------------------- C14
\* C14: a malformed reply, a 2xx body that is not JSON or a JSON body with
\* no `response` field, sets the service error, leaves response as it was
\* and hands nothing to the synthesis.
C14_MalformedReplyIsError ==
    [][ \A s \in ReqSlots :
            (JsonFail(s) \/ JsonOk(s, Undefined))
            => /\ error' = ErrService
               /\ response' = response
               /\ synthQueue' = synthQueue ]_vars

\* ----------------------------------------------------------------- C15
\* C15: the utterance of a reply is spoken with the voice selectedVoice
\* names at the moment speakResponse runs.
C15_SpeaksWithCurrentVoice ==
    [][ \A s \in ReqSlots : \A r \in Replies \cup {Undefined} :
            JsonOk(s, r)
            => synthQueue'[Len(synthQueue')].voice = VoiceOf(voices, selectedVoice) ]_vars

\* ----------------------------------------------------------------- C16
\* C16: the speech output never holds more than one utterance, and after a
\* reply is spoken the only utterance it holds is that of this reply.
C16_OneUtterance ==
    /\ [](Len(synthQueue) <= 1)
    /\ [][ \A s \in ReqSlots : \A r \in Replies \cup {Undefined} :
              JsonOk(s, r)
              => synthQueue' = << [text |-> r, voice |-> requests[s].voice] >> ]_vars

C16_Witness ==
    /\ Len(synthQueue) = 1
    /\ synthQueue[1].text = Undefined
    /\ Outstanding # {}

\* ----------------------------------------------------------------- C17
\* C17: when onend fires for an instance that is listening and has reported
\* neither a result nor an error, the session is left not recording, not
\* loading and with the modal closed, and error, userInput, response and the
\* requests in flight are as they were.
C17_SilentEndReturnsToIdle ==
    [][ \A i \in DOMAIN recognitions :
            (recognitions[i].st = "started" /\ OnEnd(i))
            => /\ ~isRecording' /\ ~isLoading' /\ ~isModalOpen'
               /\ UNCHANGED << error, userInput, response, requests >> ]_vars

C17_Witness ==
    /\ isRecording /\ isLoading /\ isModalOpen
    /\ error # ""
    /\ \E i \in DOMAIN recognitions :
          recognitions[i].st = "started" /\ ENABLED OnEnd(i)

\* ----------------------------------------------------------------- C18
\* C18: while a fetch is in flight, isLoading is true.
C18_LoadingWhileRequestOutstanding == Outstanding # {} => isLoading

\* ----------------------------------------------------------------- C19
\* C19: once every request has completed, the input shown next to the
\* stored response is the input that produced it: when a reply completes
\* the last request in flight, userInput is that request's input.
C19_ResponsePairedWithItsInput ==
    [][ \A s \in ReqSlots : \A r \in Replies :
            (Outstanding = {s} /\ JsonOk(s, r))
            => userInput' = requests[s].input ]_vars

\* ----------------------------------------------------------------- C20
\* C20: the listening modal is open only while the session is flagged as
\* recording.
C20_ModalOnlyWhileRecording == isModalOpen => isRecording

C20_Witness ==
    /\ isModalOpen
    /\ isRecording
    /\ Len(recognitions) = 2
    /\ \E i \in DOMAIN recognitions : recognitions[i].st = "reported"

====
